---------------------------- MODULE Spec2Model ----------------------------
(***************************************************************************)
(* Tender BoQ merge and comparison engine (src/x.py): header-row           *)
(* detection, column classification, per-row Lowest/Highest/Missing        *)
(* classification with the Rate x Quantity mismatch check, worksheet       *)
(* styling, and the per-sheet column merge.                                *)
(*                                                                         *)
(* Text is a sequence of one-character strings.  A number is an exact      *)
(* decimal (exact decimal arithmetic stands for Python's float; the values *)
(* used keep the float and the decimal results equal).                     *)
(***************************************************************************)
EXTENDS Integers, Sequences, FiniteSets, TLC

\* ------------------------------------------------------------------ text

LowerCase == <<"a","b","c","d","e","f","g","h","i","j","k","l","m",
               "n","o","p","q","r","s","t","u","v","w","x","y","z">>

UpperCase == <<"A","B","C","D","E","F","G","H","I","J","K","L","M",
               "N","O","P","Q","R","S","T","U","V","W","X","Y","Z">>

DigitChars == <<"0","1","2","3","4","5","6","7","8","9">>

DigitSet == {DigitChars[i] : i \in 1..10}

LowerSet == {LowerCase[i] : i \in 1..26}

UpperSet == {UpperCase[i] : i \in 1..26}

UpperOf == [c \in LowerSet |-> UpperCase[CHOOSE i \in 1..26 : LowerCase[i] = c]]

IsDigit(c) == c \in DigitSet

\* U+1E97, LATIN SMALL LETTER T WITH DIAERESIS: one character whose upper
\* case is two, T followed by U+0308 COMBINING DIAERESIS
T_DIAERESIS == "U+1E97"
COMBINING_DIAERESIS == "U+0308"

IsLetter(c) == c \in LowerSet \/ c \in UpperSet \/ c = T_DIAERESIS

\* \w of Python's re: a letter, a digit or the underscore
IsWordChar(c) == IsLetter(c) \/ IsDigit(c) \/ c = "_"

IsSpace(c) == c = " "

\* the upper case of one character where it is one character
UpperChar(c) == IF c \in LowerSet THEN UpperOf[c] ELSE c

\* str.upper() of one character: the full case mapping, which may give two
UpperSeq(c) ==
    IF c = T_DIAERESIS THEN <<"T", COMBINING_DIAERESIS>> ELSE <<UpperChar(c)>>

\* str.upper()
RECURSIVE UpperStr(_)
UpperStr(s) ==
    IF s = <<>> THEN <<>> ELSE UpperSeq(Head(s)) \o UpperStr(Tail(s))

\* the text as a pattern compiled with re.IGNORECASE sees it: characters are
\* matched one by one, a letter matching both of its cases
IgnoreCase(s) == [i \in 1..Len(s) |-> UpperChar(s[i])]

RECURSIVE LStrip(_)
LStrip(s) == IF s # <<>> /\ IsSpace(Head(s)) THEN LStrip(Tail(s)) ELSE s

RECURSIVE RStrip(_)
RStrip(s) ==
    IF s # <<>> /\ IsSpace(s[Len(s)]) THEN RStrip(SubSeq(s, 1, Len(s) - 1)) ELSE s

\* str.strip()
Strip(s) == RStrip(LStrip(s))

\* p in s
Contains(s, p) ==
    \E i \in 1..(Len(s) - Len(p) + 1) : SubSeq(s, i, i + Len(p) - 1) = p

\* s.startswith(p)
StartsWith(s, p) == Len(s) >= Len(p) /\ SubSeq(s, 1, Len(p)) = p

\* re.search(r'\bAMT\b', v): the token with no word character on either side
HasWordAMT(v) ==
    \E i \in 1..(Len(v) - 2) :
        /\ SubSeq(v, i, i + 2) = <<"A","M","T">>
        /\ (i = 1 \/ ~IsWordChar(v[i - 1]))
        /\ (i + 3 > Len(v) \/ ~IsWordChar(v[i + 3]))

\* ---------------------------------------------------------------- numbers

\* A float is modelled as an exact decimal m * 10^-e, kept normalised (no
\* trailing zero in the fraction), so that equal values are equal records.
RECURSIVE Dec(_, _)
Dec(m, e) ==
    IF e > 0 /\ m % 10 = 0 THEN Dec(m \div 10, e - 1) ELSE [m |-> m, e |-> e]

MaxOf(a, b) == IF a >= b THEN a ELSE b

\* the mantissa of d at e fractional digits (e >= d.e)
Mant(d, e) == d.m * (10 ^ (e - d.e))

\* a < b
Lt(a, b) == LET e == MaxOf(a.e, b.e) IN Mant(a, e) < Mant(b, e)

\* a * b
Mul(a, b) == Dec(a.m * b.m, a.e + b.e)

\* a - b
Sub(a, b) == LET e == MaxOf(a.e, b.e) IN Dec(Mant(a, e) - Mant(b, e), e)

\* abs(a)
AbsDec(a) == IF a.m < 0 THEN [m |-> 0 - a.m, e |-> a.e] ELSE a

\* a to_number result: None, or a float
Absent == [present |-> FALSE, v |-> Dec(0, 0)]
Float(d) == [present |-> TRUE, v |-> d]

\* worksheet cell values: None, a number, a string
NoneCell == [t |-> "none", v |-> Dec(0, 0), s |-> <<>>]
Num(d) == [t |-> "num", v |-> d, s |-> <<>>]
Str(s) == [t |-> "str", v |-> Dec(0, 0), s |-> s]
Whole(n) == Num(Dec(n, 0))

DigitVal(c) == (CHOOSE i \in 1..10 : DigitChars[i] = c) - 1

RECURSIVE NatOf(_)
NatOf(ds) ==
    IF ds = <<>> THEN 0
    ELSE NatOf(SubSeq(ds, 1, Len(ds) - 1)) * 10 + DigitVal(ds[Len(ds)])

\* float(s) for s over digits, '.' and '-': [-]digits[.digits] or [-].digits;
\* anything else raises ValueError, which to_number turns into None
ParseFloat(s) ==
    LET neg  == s # <<>> /\ Head(s) = "-"
        body == IF neg THEN Tail(s) ELSE s
        dots == {i \in 1..Len(body) : body[i] = "."}
        dot  == IF dots = {} THEN Len(body) + 1 ELSE CHOOSE i \in dots : TRUE
        ip   == SubSeq(body, 1, dot - 1)
        fp   == SubSeq(body, dot + 1, Len(body))
        ok   == /\ Cardinality(dots) <= 1
                /\ \A i \in 1..Len(body) : body[i] # "-"
                /\ Len(ip) + Len(fp) > 0
        mag  == NatOf(ip \o fp)
    IN  IF ~ok THEN Absent
        ELSE Float(Dec(IF neg THEN 0 - mag ELSE mag, Len(fp)))

\* a slip: a character class without the minus sign
RECURSIVE StripNonNumeric_DropsMinus(_)
StripNonNumeric_DropsMinus(s) ==
    IF s = <<>> THEN <<>>
    ELSE IF IsDigit(Head(s)) \/ Head(s) = "."
         THEN <<Head(s)>> \o StripNonNumeric_DropsMinus(Tail(s))
         ELSE StripNonNumeric_DropsMinus(Tail(s))

\* re.sub(r'[^\d\.\-]', '', s)
RECURSIVE StripNonNumeric(_)
StripNonNumeric(s) ==
    IF s = <<>> THEN <<>>
    ELSE IF IsDigit(Head(s)) \/ Head(s) = "." \/ Head(s) = "-"
         THEN <<Head(s)>> \o StripNonNumeric(Tail(s))
         ELSE StripNonNumeric(Tail(s))

to_number(x) ==
    IF x.t = "none" THEN Absent
    ELSE IF x.t = "str"
         THEN LET s == StripNonNumeric(Strip(x.s))
              IN  IF s = <<>> THEN Absent ELSE ParseFloat(s)
         ELSE Float(x.v)

\* ------------------------------------------------------- keywords

KW_ITEM == <<"I","T","E","M">>
KW_DESC == <<"D","E","S","C">>
KW_DESCRIPTION == <<"D","E","S","C","R","I","P","T","I","O","N">>
KW_RATE == <<"R","A","T","E">>
KW_UNIT == <<"U","N","I","T">>
KW_QUANTITY == <<"Q","U","A","N","T","I","T","Y">>
KW_QTY == <<"Q","T","Y">>
KW_AMOUNT == <<"A","M","O","U","N","T">>
KW_AED == <<"A","E","D">>
KW_AMT == <<"A","M","T">>
KW_nan == <<"n","a","n">>

\* the amount test of line 43
CellIsAmount(v) == Contains(v, KW_AMOUNT) \/ v = KW_AED \/ HasWordAMT(v)

\* ------------------------------------------------------- cell text

RECURSIVE DigitsOf(_)
DigitsOf(n) ==
    IF n < 10 THEN <<DigitChars[n + 1]>>
    ELSE DigitsOf(n \div 10) \o <<DigitChars[(n % 10) + 1]>>

\* the digits of n, left-padded with zeros to k characters
RECURSIVE PadTo(_, _)
PadTo(ds, k) == IF Len(ds) >= k THEN ds ELSE PadTo(<<"0">> \o ds, k)

\* str() of a number: 20 -> "20", 20.5 -> "20.5"
NumStr(d) ==
    LET mag == IF d.m < 0 THEN 0 - d.m ELSE d.m
        ds  == PadTo(DigitsOf(mag), d.e + 1)
        txt == IF d.e = 0 THEN ds
               ELSE SubSeq(ds, 1, Len(ds) - d.e) \o <<".">>
                    \o SubSeq(ds, Len(ds) - d.e + 1, Len(ds))
    IN  IF d.m < 0 THEN <<"-">> \o txt ELSE txt

\* df0.iloc[r].astype(str): an empty cell reads back as NaN, printed "nan"
AsTypeStr(x) ==
    IF x.t = "none" THEN KW_nan
    ELSE IF x.t = "str" THEN x.s ELSE NumStr(x.v)

\* str(value or ""): None, 0 and "" are falsy
StrOrEmpty(x) ==
    IF x.t = "none" THEN <<>>
    ELSE IF x.t = "str" THEN x.s
    ELSE IF x.v.m = 0 THEN <<>> ELSE NumStr(x.v)

\* ------------------------------------------------ header detection

HEADER_SEARCH_ROWS == 30

MinOf(a, b) == IF a <= b THEN a ELSE b

\* Python's None for best_row
NoRow == 0 - 1

\* the score one cell adds (lines 38-44)
CellScore(v) ==
      (IF Contains(v, KW_ITEM) THEN 1 ELSE 0)
    + (IF Contains(v, KW_DESC) \/ Contains(v, KW_DESCRIPTION) THEN 1 ELSE 0)
    + (IF Contains(v, KW_RATE) THEN 1 ELSE 0)
    + (IF Contains(v, KW_UNIT) THEN 1 ELSE 0)
    + (IF Contains(v, KW_QUANTITY) \/ Contains(v, KW_QTY) THEN 1 ELSE 0)
    + (IF CellIsAmount(v) THEN 2 ELSE 0)

\* row_vals of line 35
RowVals(row) == [c \in 1..Len(row) |-> UpperStr(Strip(AsTypeStr(row[c])))]

\* the inner loop over row_vals: <<score, has_amount>>
RECURSIVE ScoreLoop(_, _, _, _)
ScoreLoop(row_vals, c, score, has_amount) ==
    IF c > Len(row_vals) THEN <<score, has_amount>>
    ELSE ScoreLoop(row_vals, c + 1, score + CellScore(row_vals[c]),
                   has_amount \/ CellIsAmount(row_vals[c]))

\* a slip: >= lets a later row of equal score replace the first
TakesRow_LastWins(has_amount, score, best_score) ==
    has_amount /\ score >= best_score

\* the test of line 46
TakesRow(has_amount, score, best_score) == has_amount /\ score > best_score

\* the outer loop, r being Python's 0-based index: row r is rows[r + 1]
RECURSIVE DetectLoop(_, _, _, _)
DetectLoop(rows, r, best_row, best_score) ==
    IF r >= MinOf(HEADER_SEARCH_ROWS, Len(rows)) THEN best_row
    ELSE LET sc == ScoreLoop(RowVals(rows[r + 1]), 1, 0, FALSE)
         IN  IF TakesRow(sc[2], sc[1], best_score)
             THEN DetectLoop(rows, r + 1, r, sc[1])
             ELSE DetectLoop(rows, r + 1, best_row, best_score)

detect_header_row(rows) == DetectLoop(rows, 0, NoRow, 0 - 1)

\* ------------------------------------------- column classification

KW_UNIT_RATE == KW_UNIT \o <<" ">> \o KW_RATE

\* a slip: the pattern of the engine without the mismatch check
\* (src/updateversion.py line 11), which takes RATE for an Amount header
AMOUNT_PATTERN_WithRate(h) ==
    LET u == IgnoreCase(h)
    IN  \/ Contains(u, KW_AMOUNT) \/ Contains(u, KW_AMT) \/ Contains(u, KW_AED)
        \/ Contains(u, KW_RATE)

\* a slip: a pattern that knows AMOUNT alone
AMOUNT_PATTERN_AmountOnly(h) ==
    LET u == IgnoreCase(h) IN Contains(u, KW_AMOUNT)

\* AMOUNT_PATTERN.search(h), re.IGNORECASE (line 11)
AMOUNT_PATTERN(h) ==
    LET u == IgnoreCase(h)
    IN  Contains(u, KW_AMOUNT) \/ Contains(u, KW_AMT) \/ Contains(u, KW_AED)

\* QTY_PATTERN.search(h) (line 12)
QTY_PATTERN(h) ==
    LET u == IgnoreCase(h) IN Contains(u, KW_QUANTITY) \/ Contains(u, KW_QTY)

\* RATE_PATTERN.search(h) (line 13)
RATE_PATTERN(h) ==
    LET u == IgnoreCase(h) IN Contains(u, KW_RATE) \/ Contains(u, KW_UNIT_RATE)

\* headers of lines 254-255, for the worksheet row at header_excel_row
Headers(rows, header_excel_row) ==
    [c \in 1..Len(rows[header_excel_row]) |->
        Strip(StrOrEmpty(rows[header_excel_row][c]))]

\* [i for i, h in enumerate(headers, 1) if flags[i]], in column order
RECURSIVE IndicesFrom(_, _)
IndicesFrom(flags, i) ==
    IF i > Len(flags) THEN <<>>
    ELSE IF flags[i] THEN <<i>> \o IndicesFrom(flags, i + 1)
         ELSE IndicesFrom(flags, i + 1)

\* line 257
AllAmountCols(headers) ==
    IndicesFrom([i \in 1..Len(headers) |-> AMOUNT_PATTERN(headers[i])], 1)

\* a slip: the last three columns kept instead of the first three
LimitAmountCols_LastThree(cols, take_three) ==
    IF take_three /\ Len(cols) > 3
    THEN SubSeq(cols, Len(cols) - 2, Len(cols))
    ELSE cols

\* lines 260-261
LimitAmountCols(cols, take_three) ==
    IF take_three /\ Len(cols) > 3 THEN SubSeq(cols, 1, 3) ELSE cols

\* line 264
RateCols(headers) ==
    IndicesFrom([i \in 1..Len(headers) |-> RATE_PATTERN(headers[i])], 1)

\* line 265
QtyCols(headers) ==
    IndicesFrom([i \in 1..Len(headers) |-> QTY_PATTERN(headers[i])], 1)

\* ------------------------------------------------- row comparison

NoFill == "none"
GREEN_FILL == "green"
RED_FILL == "red"
YELLOW_FILL == "yellow"
BLUE_FILL == "blue"
HEADER_FILL == "gray"

\* vals of line 269
RowVals269(row, cols) == [j \in 1..Len(cols) |-> to_number(row[cols[j]])]

\* a slip: min and max taken over vals, absent cells included
Present_All(vals) == 1..Len(vals)

\* the indices of present (line 270)
Present(vals) == {j \in 1..Len(vals) : vals[j].present}

\* min(present), max(present) (line 272)
MinPresent(vals) ==
    LET P == Present(vals)
    IN  vals[CHOOSE j \in P : \A k \in P : ~Lt(vals[k].v, vals[j].v)].v

MaxPresent(vals) ==
    LET P == Present(vals)
    IN  vals[CHOOSE j \in P : \A k \in P : ~Lt(vals[j].v, vals[k].v)].v

\* a slip: the maximum tested before the minimum
CellFill_HighestFirst(vals, j) ==
    IF Present(vals) = {} THEN NoFill
    ELSE IF ~vals[j].present THEN YELLOW_FILL
    ELSE IF vals[j].v = MaxPresent(vals) THEN RED_FILL
    ELSE IF vals[j].v = MinPresent(vals) THEN GREEN_FILL
    ELSE NoFill

\* a slip: a row whose present values are all equal is left unmarked
CellFill_EqualRowUnmarked(vals, j) ==
    IF Present(vals) = {} THEN NoFill
    ELSE IF ~vals[j].present THEN YELLOW_FILL
    ELSE IF MinPresent(vals) = MaxPresent(vals) THEN NoFill
    ELSE IF vals[j].v = MinPresent(vals) THEN GREEN_FILL
    ELSE IF vals[j].v = MaxPresent(vals) THEN RED_FILL
    ELSE NoFill

\* the fill lines 273-283 give the j-th Amount cell (NoFill: left alone)
CellFill(vals, j) ==
    IF Present(vals) = {} THEN NoFill
    ELSE IF ~vals[j].present THEN YELLOW_FILL
    ELSE IF vals[j].v = MinPresent(vals) THEN GREEN_FILL
    ELSE IF vals[j].v = MaxPresent(vals) THEN RED_FILL
    ELSE NoFill

\* the fills lines 269-283 assign in one row, per worksheet column
RowFills(row, cols) ==
    LET vals == RowVals269(row, cols)
    IN  [c \in 1..Len(row) |->
            IF \E j \in 1..Len(cols) : cols[j] = c
            THEN CellFill(vals, CHOOSE j \in 1..Len(cols) : cols[j] = c)
            ELSE NoFill]

\* how many cells lines 273-283 count under one fill
CountFill(fills, f) == Cardinality({c \in 1..Len(fills) : fills[c] = f})

\* the tolerance of line 293
Tolerance == Dec(1, 6)

\* a slip: rate * qty compared with != instead of the tolerance
IsMismatch_Exact(row, rates, qtys, amounts) ==
    /\ rates # <<>> /\ qtys # <<>> /\ amounts # <<>>
    /\ LET rate   == to_number(row[rates[1]])
           qty    == to_number(row[qtys[1]])
           amount == to_number(row[amounts[1]])
       IN  /\ rate.present /\ qty.present /\ amount.present
           /\ Mul(rate.v, qty.v) # amount.v

\* lines 286-293: whether the row's first Amount cell is a mismatch
IsMismatch(row, rates, qtys, amounts) ==
    /\ rates # <<>> /\ qtys # <<>> /\ amounts # <<>>
    /\ LET rate   == to_number(row[rates[1]])
           qty    == to_number(row[qtys[1]])
           amount == to_number(row[amounts[1]])
       IN  /\ rate.present /\ qty.present /\ amount.present
           /\ Lt(Tolerance, AbsDec(Sub(Mul(rate.v, qty.v), amount.v)))

\* the cell lines 294-295 fill blue
MismatchCol(amounts) == amounts[1]

\* a slip: the mismatch fill applied only to a cell without a fill
FinalFill_KeepsFirst(step3_fill, is_mismatch_cell, old_fill) ==
    IF step3_fill # NoFill THEN step3_fill
    ELSE IF is_mismatch_cell THEN BLUE_FILL
    ELSE old_fill

\* cell.fill of one cell after lines 273-295: the fill of lines 273-283,
\* overwritten by line 295 when the cell is the row's mismatch cell
FinalFill(step3_fill, is_mismatch_cell, old_fill) ==
    IF is_mismatch_cell THEN BLUE_FILL
    ELSE IF step3_fill # NoFill THEN step3_fill
    ELSE old_fill

\* ------------------------------------------------------- cell contents

TXT_foo == Str(<<"f","o","o">>)
TXT_bar == Str(<<"b","a","r">>)
TXT_x == Str(<<"x">>)
TXT_ITEM == Str(<<"I","T","E","M">>)
TXT_DESCRIPTION == Str(<<"D","E","S","C","R","I","P","T","I","O","N">>)
TXT_QTY == Str(<<"Q","T","Y">>)
TXT_RATE == Str(<<"R","A","T","E">>)
TXT_AMOUNT == Str(<<"A","M","O","U","N","T">>)
TXT_B_RATE == Str(<<"B","_","R","A","T","E">>)
TXT_B_AMOUNT == Str(<<"B","_","A","M","O","U","N","T">>)
TXT_C_AMT == Str(<<"C","_","A","M","T">>)
TXT_D_AMOUNT == Str(<<"D","_","A","M","O","U","N","T">>)
TXT_E_AED == Str(<<"E","_","A","E","D">>)
TXT_AED == Str(<<"A","E","D">>)
TXT_AMT == Str(<<"A","M","T">>)
TXT_TotalAED == Str(<<"T","o","t","a","l"," ","A","E","D">>)
TXT_unit_rate == Str(<<" ","u","n","i","t"," ","r","a","t","e"," ">>)
TXT_amount_aed == Str(<<"A","m","o","u","n","t"," ","(","a","e","d",")">>)
TXT_Quantity == Str(<<"Q","u","a","n","t","i","t","y">>)
TXT_na == Str(<<"N","/","A">>)
TXT_two_nos == Str(<<"2"," ","n","o","s">>)
TXT_twenty_aed == Str(<<"2","0",".","0","0"," ","A","E","D">>)
TXT_one_two == Str(<<"1","-","2">>)
TXT_amount_t_diaeresis == Str(<<"a","m","o","u","n",T_DIAERESIS>>)

\* ------------------------------------------------------------ state

VARIABLES
    wb,                      \* the workbook: a sequence of [name, rows] (line 244)
    take_first_three_only,   \* the sidebar checkbox (line 168)
    pc,                      \* where the comparison loop of lines 246-299 stands
    si,                      \* the index of sheet_name in wb.sheetnames
    header_row,              \* line 249
    amount_cols,             \* lines 257-261
    rate_cols,               \* line 264
    qty_cols,                \* line 265
    r,                       \* the worksheet row of the loop of line 268
    low_count, high_count, missing_count, mismatch_count,   \* line 267
    fill,                    \* cell.fill per sheet, row, column
    border,                  \* per sheet: every cell has thin_border (line 72)
    bold_row,                \* per sheet: the row given the header font (0: none)
    freeze_panes,            \* per sheet: the row of ws.freeze_panes (0: none)
    summary,                 \* line 193, line 299
    step3,                   \* history: the fill lines 273-283 gave each cell
    sheet_cols,              \* history: header_row and column lists per sheet
    runs,                    \* how many Merge & Compare runs were started
    prev,                    \* history: the outcome of the previous run
    uploaded,                \* the files of one sheet group (line 195)
    idx,                     \* the loop index of line 197
    dfs,                     \* line 196
    merged_df,               \* lines 228-235
    mpc,                     \* where the merge of lines 195-235 stands
    tn_x,                    \* the argument x of a call of to_number (line 50)
    tn_result,               \* what the call returned
    tn_done                  \* whether the call has returned

cmpVars == <<wb, take_first_three_only, pc, si, header_row, amount_cols,
             rate_cols, qty_cols, r, low_count, high_count, missing_count,
             mismatch_count, fill, border, bold_row, freeze_panes, summary,
             step3, sheet_cols, runs, prev>>

mergeVars == <<uploaded, idx, dfs, merged_df, mpc>>

numVars == <<tn_x, tn_result, tn_done>>

vars == <<cmpVars, mergeVars, numVars>>

\* how many Merge & Compare runs one behaviour holds
MaxRuns == 2

NoCols == [header_row |-> NoRow, all_amount |-> <<>>, amount |-> <<>>,
           rate |-> <<>>, qty |-> <<>>]

NoPrev == [wb |-> <<>>, flag |-> FALSE, fill |-> <<>>, border |-> <<>>,
           bold_row |-> <<>>, freeze_panes |-> <<>>, summary |-> <<>>,
           step3 |-> <<>>, sheet_cols |-> <<>>]

BlankGrid(book) ==
    [s \in 1..Len(book) |->
        [i \in 1..Len(book[s].rows) |->
            [c \in 1..Len(book[s].rows[i]) |-> NoFill]]]

\* the state in which the loop of line 246 starts on workbook book
Fresh(book) ==
    [fill |-> BlankGrid(book),
     border |-> [s \in 1..Len(book) |-> FALSE],
     rowmark |-> [s \in 1..Len(book) |-> 0],
     cols |-> [s \in 1..Len(book) |-> NoCols]]

StartRun(book, flag) ==
    /\ wb' = book
    /\ take_first_three_only' = flag
    /\ pc' = "detect"
    /\ si' = 1
    /\ header_row' = NoRow
    /\ amount_cols' = <<>>
    /\ rate_cols' = <<>>
    /\ qty_cols' = <<>>
    /\ r' = 0
    /\ low_count' = 0 /\ high_count' = 0
    /\ missing_count' = 0 /\ mismatch_count' = 0
    /\ fill' = Fresh(book).fill
    /\ border' = Fresh(book).border
    /\ bold_row' = Fresh(book).rowmark
    /\ freeze_panes' = Fresh(book).rowmark
    /\ summary' = <<>>
    /\ step3' = Fresh(book).fill
    /\ sheet_cols' = Fresh(book).cols

\* `continue`, or the end of the loop body: the next sheet_name of line 246
NextSheet ==
    IF si < Len(wb) THEN si' = si + 1 /\ pc' = "detect"
    ELSE si' = si /\ pc' = "done"

\* a slip: `break` where line 251 has `continue`
SkipSheet_Break == si' = si /\ pc' = "done"

\* the `continue` of line 251
SkipSheet == NextSheet

\* lines 247-252
DetectHeader ==
    /\ pc = "detect"
    /\ LET h == detect_header_row(wb[si].rows)
       IN  /\ header_row' = h
           /\ sheet_cols' = [sheet_cols EXCEPT ![si].header_row = h]
           /\ IF h = NoRow THEN SkipSheet
              ELSE si' = si /\ pc' = "classify"
    /\ UNCHANGED <<wb, take_first_three_only, amount_cols, rate_cols, qty_cols,
                   r, low_count, high_count, missing_count, mismatch_count,
                   fill, border, bold_row, freeze_panes, summary, step3,
                   runs, prev>>
    /\ UNCHANGED <<mergeVars, numVars>>

\* lines 252-267
ClassifyColumns ==
    /\ pc = "classify"
    /\ LET header_excel_row == header_row + 1
           headers == Headers(wb[si].rows, header_excel_row)
           found   == AllAmountCols(headers)
       IN  IF found = <<>>
           THEN /\ amount_cols' = found
                /\ NextSheet
                /\ UNCHANGED <<rate_cols, qty_cols, r, low_count, high_count,
                               missing_count, mismatch_count, sheet_cols>>
           ELSE /\ amount_cols' = LimitAmountCols(found, take_first_three_only)
                /\ rate_cols' = RateCols(headers)
                /\ qty_cols' = QtyCols(headers)
                /\ low_count' = 0 /\ high_count' = 0
                /\ missing_count' = 0 /\ mismatch_count' = 0
                /\ r' = header_excel_row + 1
                /\ sheet_cols' = [sheet_cols EXCEPT ![si] =
                       [header_row |-> header_row, all_amount |-> found,
                        amount |-> amount_cols', rate |-> rate_cols',
                        qty |-> qty_cols']]
                /\ si' = si /\ pc' = "rows"
    /\ UNCHANGED <<wb, take_first_three_only, header_row, fill, border,
                   bold_row, freeze_panes, summary, step3, runs, prev>>
    /\ UNCHANGED <<mergeVars, numVars>>

\* lines 268-296: one pass of the row loop
CompareRow ==
    /\ pc = "rows"
    /\ r <= Len(wb[si].rows)
    /\ LET row   == wb[si].rows[r]
           fills == RowFills(row, amount_cols)
           blue  == IsMismatch(row, rate_cols, qty_cols, amount_cols)
       IN  /\ low_count' = low_count + CountFill(fills, GREEN_FILL)
           /\ high_count' = high_count + CountFill(fills, RED_FILL)
           /\ missing_count' = missing_count + CountFill(fills, YELLOW_FILL)
           /\ mismatch_count' = mismatch_count + (IF blue THEN 1 ELSE 0)
           /\ fill' = [fill EXCEPT ![si][r] =
                  [c \in 1..Len(row) |->
                      FinalFill(fills[c],
                                blue /\ c = MismatchCol(amount_cols),
                                fill[si][r][c])]]
           /\ step3' = [step3 EXCEPT ![si][r] = fills]
    /\ r' = r + 1
    /\ UNCHANGED <<wb, take_first_three_only, pc, si, header_row, amount_cols,
                   rate_cols, qty_cols, border, bold_row, freeze_panes,
                   summary, sheet_cols, runs, prev>>
    /\ UNCHANGED <<mergeVars, numVars>>

\* a slip: every record filed under the name of the first sheet
SummaryRow_FirstSheetName(name, low, high, missing, mismatch) ==
    [sheet |-> wb[1].name, lowest |-> low, highest |-> high,
     missing |-> missing, mismatch |-> mismatch]

\* the record of line 299
SummaryRow(name, low, high, missing, mismatch) ==
    [sheet |-> name, lowest |-> low, highest |-> high,
     missing |-> missing, mismatch |-> mismatch]

\* lines 298-299, once the row loop has ended: style_worksheet (lines 64-92)
\* and summary.append
FinishSheet ==
    /\ pc = "rows"
    /\ r > Len(wb[si].rows)
    /\ LET header_excel_row == header_row + 1
       IN  /\ border' = [border EXCEPT ![si] = TRUE]
           /\ bold_row' = [bold_row EXCEPT ![si] = header_excel_row]
           /\ fill' = [fill EXCEPT ![si][header_excel_row] =
                  [c \in 1..Len(wb[si].rows[header_excel_row]) |-> HEADER_FILL]]
           /\ freeze_panes' = [freeze_panes EXCEPT ![si] = header_excel_row + 1]
    /\ summary' = Append(summary,
           SummaryRow(wb[si].name, low_count, high_count, missing_count,
                      mismatch_count))
    /\ NextSheet
    /\ UNCHANGED <<wb, take_first_three_only, header_row, amount_cols,
                   rate_cols, qty_cols, r, low_count, high_count,
                   missing_count, mismatch_count, step3, sheet_cols, runs,
                   prev>>
    /\ UNCHANGED <<mergeVars, numVars>>

\* what a finished run leaves behind
Outcome ==
    [wb |-> wb, flag |-> take_first_three_only, fill |-> fill,
     border |-> border, bold_row |-> bold_row, freeze_panes |-> freeze_panes,
     summary |-> summary, step3 |-> step3, sheet_cols |-> sheet_cols]

\* the user flips the checkbox of line 168 and presses Merge & Compare again
\* (line 183): a fresh run on the same uploads
RerunToggled ==
    /\ pc = "done"
    /\ runs < MaxRuns
    /\ runs' = runs + 1
    /\ prev' = Outcome
    /\ StartRun(wb, ~take_first_three_only)
    /\ UNCHANGED <<mergeVars, numVars>>

\* the user takes away the upload that alone holds sheet k and presses
\* Merge & Compare again (lines 177-183): the same run without that sheet
RerunWithoutSheet ==
    /\ pc = "done"
    /\ runs < MaxRuns
    /\ Len(wb) >= 2
    /\ \E k \in 1..Len(wb) :
          StartRun([i \in 1..(Len(wb) - 1) |-> IF i < k THEN wb[i] ELSE wb[i + 1]],
                   take_first_three_only)
    /\ runs' = runs + 1
    /\ prev' = Outcome
    /\ UNCHANGED <<mergeVars, numVars>>

\* ------------------------------------------------------ workbooks

Sheet(name, rows) == [name |-> name, rows |-> rows]

SheetNames == <<"S1", "S2", "S3">>

\* a merged sheet as line 240 writes it: the column names in row 1, five
\* Amount columns among them, and one data row
WideHeader == <<TXT_ITEM, TXT_QTY, TXT_RATE, TXT_AMOUNT, TXT_B_RATE,
                TXT_B_AMOUNT, TXT_C_AMT, TXT_D_AMOUNT>>

FirstAmounts == {NoneCell, Whole(20), Num(Dec(200000001, 7)),
                 Num(Dec(200000011, 7)), Whole(21), TXT_na, TXT_twenty_aed}

OtherAmounts == {NoneCell, Whole(20), Whole(30)}

Quantities == {NoneCell, Whole(2), TXT_two_nos}

Rates == {NoneCell, Whole(10)}

WideSheets ==
    {Sheet("S1", <<WideHeader, <<Whole(1), q, rt, a1, Whole(7), a2, a3, a4>>>>) :
        q \in Quantities, rt \in Rates, a1 \in FirstAmounts,
        a2 \in OtherAmounts, a3 \in OtherAmounts, a4 \in OtherAmounts}

\* rows that may or may not pass for a header row
HeaderLikeRows ==
    {<<TXT_foo, TXT_bar, TXT_x>>,
     <<TXT_ITEM, TXT_RATE, TXT_AMOUNT>>,
     <<TXT_amount_aed, TXT_unit_rate, TXT_Quantity>>,
     <<TXT_AED, TXT_QTY, TXT_x>>,
     <<TXT_TotalAED, TXT_DESCRIPTION, TXT_C_AMT>>,
     <<TXT_AMT, TXT_ITEM, TXT_RATE>>,
     <<Whole(20), Whole(10), Whole(2)>>,
     <<NoneCell, TXT_one_two, Whole(5)>>}

StackedSheets ==
    {Sheet("S1", <<a, b, c>>) :
        a \in HeaderLikeRows, b \in HeaderLikeRows, c \in HeaderLikeRows}

Filler == <<TXT_x, NoneCell>>

\* n filler rows, then a header row and one data row
Deep(n) ==
    [i \in 1..(n + 2) |->
        IF i <= n THEN Filler
        ELSE IF i = n + 1 THEN <<TXT_ITEM, TXT_AMOUNT>>
        ELSE <<Whole(1), Whole(20)>>]

BatchRows ==
    {<< <<TXT_ITEM, TXT_QTY, TXT_RATE, TXT_AMOUNT, TXT_B_AMOUNT>>,
        <<Whole(1), Whole(2), Whole(10), Whole(21), Whole(20)>>,
        <<Whole(2), Whole(2), Whole(10), Whole(20), NoneCell>>,
        <<Whole(3), NoneCell, NoneCell, NoneCell, TXT_na>>,
        <<Whole(4), Whole(2), Whole(10), Num(Dec(200000001, 7)), Whole(30)>>,
        <<Whole(5), Whole(2), Whole(10), Whole(19), Whole(20)>> >>,
     << <<TXT_foo, TXT_bar>>, <<Whole(1), TXT_x>> >>,
     << <<TXT_foo, TXT_bar, NoneCell, NoneCell, NoneCell>>,
        <<TXT_ITEM, TXT_DESCRIPTION, TXT_RATE, TXT_QTY, TXT_AMOUNT>>,
        <<Whole(1), TXT_x, Whole(10), Whole(2), Whole(20)>> >>,
     << <<TXT_QTY, TXT_RATE, TXT_AMOUNT, TXT_B_AMOUNT, TXT_C_AMT,
          TXT_D_AMOUNT, TXT_E_AED>>,
        <<Whole(2), Whole(10), Whole(21), Whole(20), Whole(30), NoneCell,
          Whole(5)>> >>,
     << <<TXT_ITEM, TXT_TotalAED>>, <<Whole(1), Whole(20)>> >>,
     << <<TXT_ITEM, TXT_RATE, TXT_AMOUNT, TXT_B_AMOUNT>>,
        <<Whole(1), Whole(10), Whole(5), Whole(7)>>,
        <<Whole(2), Whole(10), Whole(7), Whole(7)>> >>,
     << <<TXT_ITEM, TXT_amount_t_diaeresis>>, <<Whole(1), Whole(20)>> >>,
     Deep(HEADER_SEARCH_ROWS - 1),
     Deep(HEADER_SEARCH_ROWS)}

Batches ==
    {<<Sheet("S1", a), Sheet("S2", b)>> : a \in BatchRows, b \in BatchRows}

Workbooks ==
    {<<s>> : s \in WideSheets} \cup {<<s>> : s \in StackedSheets} \cup Batches

\* no call of to_number under observation
NumberIdle ==
    /\ tn_x = NoneCell
    /\ tn_result = Absent
    /\ tn_done = FALSE

MergeIdle ==
    /\ uploaded = <<>>
    /\ idx = 0
    /\ dfs = <<>>
    /\ merged_df = <<>>
    /\ mpc = "idle"

Init ==
    /\ wb \in Workbooks
    /\ take_first_three_only \in BOOLEAN
    /\ pc = "detect"
    /\ si = 1
    /\ header_row = NoRow
    /\ amount_cols = <<>>
    /\ rate_cols = <<>>
    /\ qty_cols = <<>>
    /\ r = 0
    /\ low_count = 0 /\ high_count = 0
    /\ missing_count = 0 /\ mismatch_count = 0
    /\ fill = Fresh(wb).fill
    /\ border = Fresh(wb).border
    /\ bold_row = Fresh(wb).rowmark
    /\ freeze_panes = Fresh(wb).rowmark
    /\ summary = <<>>
    /\ step3 = Fresh(wb).fill
    /\ sheet_cols = Fresh(wb).cols
    /\ runs = 1
    /\ prev = NoPrev
    /\ MergeIdle
    /\ NumberIdle

Next ==
    \/ DetectHeader
    \/ ClassifyColumns
    \/ CompareRow
    \/ FinishSheet
    \/ RerunToggled
    \/ RerunWithoutSheet

Spec == Init /\ [][Next]_vars

\* --------------------------------------------------------- properties

\* row i of sheet s has been through the row loop of lines 268-296
Compared(s, i) ==
    /\ sheet_cols[s].amount # <<>>
    /\ i > sheet_cols[s].header_row + 1
    /\ i <= Len(wb[s].rows)
    /\ \/ s < si
       \/ pc = "done"
       \/ s = si /\ pc = "rows" /\ i < r

ComparedRows ==
    {<<s, i>> \in UNION {{<<s, i>> : i \in 1..Len(wb[s].rows)} : s \in 1..Len(wb)} :
        Compared(s, i)}

\* sheet s has its summary row
Finished(s) == sheet_cols[s].amount # <<>> /\ (s < si \/ pc = "done")

\* the normalised values of the Amount cells of a row, by position in the
\* Amount-column list
AmountVals(s, i) ==
    [j \in 1..Len(sheet_cols[s].amount) |->
        to_number(wb[s].rows[i][sheet_cols[s].amount[j]])]

PresentIn(vals) == {j \in 1..Len(vals) : vals[j].present}

\* no present value of the row is below vals[j]
IsRowMin(vals, j) ==
    vals[j].present /\ \A k \in PresentIn(vals) : ~Lt(vals[k].v, vals[j].v)

\* no present value of the row is above vals[j]
IsRowMax(vals, j) ==
    vals[j].present /\ \A k \in PresentIn(vals) : ~Lt(vals[j].v, vals[k].v)

\* the present values of the row are not all equal
HasTwoValues(vals) ==
    \E j \in PresentIn(vals), k \in PresentIn(vals) : Lt(vals[j].v, vals[k].v)

\* the Amount cells of a row that lines 273-283 marked with fill f
Marked(s, i, f) ==
    {j \in 1..Len(sheet_cols[s].amount) :
        step3[s][i][sheet_cols[s].amount[j]] = f}

\* C1 as stated: in every compared row whose present Amount values hold at
\* least two distinct values, exactly one present cell is marked Lowest.
C1_ExactlyOneLowest ==
    \A p \in ComparedRows :
        HasTwoValues(AmountVals(p[1], p[2]))
            => Cardinality(Marked(p[1], p[2], GREEN_FILL)) = 1

\* C1 amended: in every compared row with a present Amount value, the cells
\* marked Lowest are exactly the present cells whose value equals the row
\* minimum; there is at least one, and more than one when the minimum is tied.
C1_LowestAreTheMinima ==
    \A p \in ComparedRows :
        LET vals == AmountVals(p[1], p[2])
        IN  PresentIn(vals) # {} =>
                /\ Marked(p[1], p[2], GREEN_FILL) =
                       {j \in 1..Len(vals) : IsRowMin(vals, j)}
                /\ Marked(p[1], p[2], GREEN_FILL) # {}

\* C1 witness: a compared row with two distinct present values whose minimum
\* occurs twice, both cells marked Lowest.
C1_TiedMinimumRow ==
    \E p \in ComparedRows :
        /\ HasTwoValues(AmountVals(p[1], p[2]))
        /\ Cardinality(Marked(p[1], p[2], GREEN_FILL)) >= 2

\* the absent Amount cells of the compared rows of sheet s that lie in rows
\* with / without a present value
AbsentCells(s, with_present) ==
    {<<i, j>> \in (1..Len(wb[s].rows)) \X (1..Len(sheet_cols[s].amount)) :
        /\ Compared(s, i)
        /\ ~AmountVals(s, i)[j].present
        /\ (PresentIn(AmountVals(s, i)) # {}) = with_present}

\* the summary row of sheet s
SummaryOf(s) ==
    LET k == CHOOSE k \in 1..Len(summary) : summary[k].sheet = wb[s].name
    IN  summary[k]

HasRateQtyAmount(s) ==
    /\ sheet_cols[s].rate # <<>>
    /\ sheet_cols[s].qty # <<>>
    /\ sheet_cols[s].all_amount # <<>>

\* |rate * quantity - amount| > 10^-6, over integers at a common exponent
ExceedsTolerance(rate, qty, amount) ==
    LET e    == MaxOf(MaxOf(rate.e + qty.e, amount.e), 6)
        prod == rate.m * qty.m * (10 ^ (e - rate.e - qty.e))
        amt  == amount.m * (10 ^ (e - amount.e))
        diff == IF prod >= amt THEN prod - amt ELSE amt - prod
    IN  diff > 10 ^ (e - 6)

\* the first Rate, Quantity and Amount cells of row i are all present and
\* rate x quantity differs from amount by more than 10^-6
RowIsMismatch(s, i) ==
    LET row    == wb[s].rows[i]
        rate   == to_number(row[sheet_cols[s].rate[1]])
        qty    == to_number(row[sheet_cols[s].qty[1]])
        amount == to_number(row[sheet_cols[s].all_amount[1]])
    IN  /\ rate.present /\ qty.present /\ amount.present
        /\ ExceedsTolerance(rate.v, qty.v, amount.v)

\* the first Rate, Quantity and Amount cells of row i hold these numbers
RowHolds(s, i, rate, qty, amount) ==
    LET row == wb[s].rows[i]
    IN  /\ to_number(row[sheet_cols[s].rate[1]]) = Float(rate)
        /\ to_number(row[sheet_cols[s].qty[1]]) = Float(qty)
        /\ to_number(row[sheet_cols[s].all_amount[1]]) = Float(amount)

\* C3: in a sheet with a Rate, a Quantity and an Amount column, a compared
\* row's first Amount cell is filled blue (Mismatch) exactly when its first
\* Rate, Quantity and Amount values are all present and
\* |rate x quantity - amount| > 1e-6 (10, 2, 21 is; 10, 2, 20.0000001 is not);
\* no other cell of the row is ever blue; the sheet's Mismatch count is the
\* number of such rows.
C3_MismatchIffOutOfTolerance ==
    /\ \A p \in ComparedRows :
           LET s == p[1]
               i == p[2]
           IN  HasRateQtyAmount(s) =>
                   /\ (fill[s][i][sheet_cols[s].all_amount[1]] = BLUE_FILL)
                          <=> RowIsMismatch(s, i)
                   /\ \A c \in 1..Len(wb[s].rows[i]) :
                          c # sheet_cols[s].all_amount[1]
                              => fill[s][i][c] # BLUE_FILL
                   /\ RowHolds(s, i, Dec(10, 0), Dec(2, 0), Dec(21, 0))
                          => fill[s][i][sheet_cols[s].all_amount[1]] = BLUE_FILL
                   /\ RowHolds(s, i, Dec(10, 0), Dec(2, 0), Dec(200000001, 7))
                          => fill[s][i][sheet_cols[s].all_amount[1]] # BLUE_FILL
    /\ \A s \in 1..Len(wb) :
           Finished(s) /\ HasRateQtyAmount(s) =>
               SummaryOf(s).mismatch =
                   Cardinality({i \in 1..Len(wb[s].rows) :
                                   Compared(s, i) /\ RowIsMismatch(s, i)})

\* C3 witness: a finished sheet holding a row 10, 2, 21 marked Mismatch and a
\* row 10, 2, 20.0000001 not marked, its Mismatch count being that of its
\* out-of-tolerance rows.
C3_WithinAndBeyondTolerance ==
    \E s \in 1..Len(wb) :
        /\ Finished(s) /\ HasRateQtyAmount(s)
        /\ \E i \in 1..Len(wb[s].rows), k \in 1..Len(wb[s].rows) :
              /\ Compared(s, i) /\ Compared(s, k)
              /\ RowHolds(s, i, Dec(10, 0), Dec(2, 0), Dec(21, 0))
              /\ fill[s][i][sheet_cols[s].all_amount[1]] = BLUE_FILL
              /\ RowHolds(s, k, Dec(10, 0), Dec(2, 0), Dec(200000001, 7))
              /\ fill[s][k][sheet_cols[s].all_amount[1]] = GREEN_FILL
        /\ SummaryOf(s).mismatch = 2

\* the counts steps 1-3 alone give sheet s: present cells equal to the row
\* minimum, present cells equal to the row maximum and not the minimum,
\* absent cells beside a present value
Step3Count(s, kind) ==
    Cardinality(
        {q \in (1..Len(wb[s].rows)) \X (1..Len(sheet_cols[s].amount)) :
            /\ Compared(s, q[1])
            /\ LET vals == AmountVals(s, q[1])
               IN  /\ PresentIn(vals) # {}
                   /\ CASE kind = "lowest"  -> IsRowMin(vals, q[2])
                        [] kind = "highest" -> IsRowMax(vals, q[2])
                                                  /\ ~IsRowMin(vals, q[2])
                        [] kind = "missing" -> ~vals[q[2]].present})

\* C4: a first Amount cell that fails the mismatch check ends blue whatever
\* fill the Lowest/Highest/Missing step gave it, and the sheet's Lowest,
\* Highest and Missing counts are those of that step alone.
C4_MismatchWinsCountsKept ==
    /\ \A p \in ComparedRows :
           HasRateQtyAmount(p[1]) /\ RowIsMismatch(p[1], p[2])
               => fill[p[1]][p[2]][sheet_cols[p[1]].all_amount[1]] = BLUE_FILL
    /\ \A s \in 1..Len(wb) :
           Finished(s) =>
               /\ SummaryOf(s).lowest = Step3Count(s, "lowest")
               /\ SummaryOf(s).highest = Step3Count(s, "highest")
               /\ SummaryOf(s).missing = Step3Count(s, "missing")

\* C4 witness: a finished run in which a cell marked Lowest and a cell marked
\* Highest were both overwritten by Mismatch, the Lowest one still counted.
C4_OverwrittenLowestAndHighest ==
    /\ pc = "done"
    /\ \E s \in 1..Len(wb) :
          /\ Finished(s)
          /\ \E i \in 1..Len(wb[s].rows), c \in 1..Len(wb[s].rows[1]) :
                step3[s][i][c] = GREEN_FILL /\ fill[s][i][c] = BLUE_FILL
          /\ SummaryOf(s).lowest >= 1
    /\ \E s \in 1..Len(wb) :
          \E i \in 1..Len(wb[s].rows), c \in 1..Len(wb[s].rows[1]) :
              step3[s][i][c] = RED_FILL /\ fill[s][i][c] = BLUE_FILL

\* sheet s has been through detect_header_row in this run
Detected(s) == s < si \/ (s = si /\ pc # "detect")

\* the text the Header Locator reads in a cell: stringified, stripped, uppercased
LocatorText(cell) == UpperStr(Strip(AsTypeStr(cell)))

\* AMT as a standalone token: no letter, digit or underscore beside it
StandaloneAMT(v) ==
    \E pre \in {SubSeq(v, 1, k) : k \in 0..Len(v)} :
        \E post \in {SubSeq(v, k, Len(v)) : k \in 1..(Len(v) + 1)} :
            /\ v = pre \o KW_AMT \o post
            /\ (pre = <<>> \/ ~IsWordChar(pre[Len(pre)]))
            /\ (post = <<>> \/ ~IsWordChar(post[1]))

\* the amount pattern of the Header Locator
AmountPatternCell(v) ==
    Contains(v, KW_AMOUNT) \/ v = KW_AED \/ StandaloneAMT(v)

\* +1 per cell for each of ITEM, DESC, RATE, UNIT, QUANTITY/QTY and +2 per
\* amount-pattern cell
HeaderScore(row) ==
    LET txt == [c \in 1..Len(row) |-> LocatorText(row[c])]
        N(Hit(_)) == Cardinality({c \in 1..Len(row) : Hit(txt[c])})
        HasItem(v) == Contains(v, KW_ITEM)
        HasDesc(v) == Contains(v, KW_DESC)
        HasRate(v) == Contains(v, KW_RATE)
        HasUnit(v) == Contains(v, KW_UNIT)
        HasQty(v)  == Contains(v, KW_QUANTITY) \/ Contains(v, KW_QTY)
    IN  N(HasItem) + N(HasDesc) + N(HasRate) + N(HasUnit) + N(HasQty)
            + 2 * N(AmountPatternCell)

\* the 0-based indices of the rows of the scan window that hold an
\* amount-pattern cell
EligibleRows(rows) ==
    {k \in 0..(MinOf(30, Len(rows)) - 1) :
        \E c \in 1..Len(rows[k + 1]) :
            AmountPatternCell(LocatorText(rows[k + 1][c]))}

\* the rows of the example: [foo, bar], [ITEM, DESCRIPTION, RATE, QTY, AMOUNT],
\* [1, x, 10, 2, 20]
ExampleRows ==
    << <<TXT_foo, TXT_bar, NoneCell, NoneCell, NoneCell>>,
       <<TXT_ITEM, TXT_DESCRIPTION, TXT_RATE, TXT_QTY, TXT_AMOUNT>>,
       <<Whole(1), TXT_x, Whole(10), Whole(2), Whole(20)>> >>

\* C5: the index detect_header_row returns is the lowest index among the
\* eligible rows of the first min(30, row count) rows that have the maximum
\* score, none when no row is eligible, and 1 for the rows of the example.
C5_FirstBestEligibleRow ==
    \A s \in 1..Len(wb) :
        Detected(s) =>
            LET rows == wb[s].rows
                h    == sheet_cols[s].header_row
                E    == EligibleRows(rows)
            IN  /\ IF E = {} THEN h = NoRow
                   ELSE /\ h \in E
                        /\ \A k \in E :
                               /\ HeaderScore(rows[k + 1]) <= HeaderScore(rows[h + 1])
                               /\ HeaderScore(rows[k + 1]) = HeaderScore(rows[h + 1])
                                      => h <= k
                /\ rows = ExampleRows => h = 1

\* C5 witness: a detected sheet with two eligible rows of equal, maximal
\* score, the first of them returned although it is not the first row.
C5_TieKeepsFirst ==
    \E s \in 1..Len(wb) :
        /\ Detected(s)
        /\ LET rows == wb[s].rows
               h    == sheet_cols[s].header_row
           IN  /\ h > 0
               /\ \E k \in EligibleRows(rows) :
                      k > h /\ HeaderScore(rows[k + 1]) = HeaderScore(rows[h + 1])

\* a finished run and the finished run before it, on the same workbook with
\* the checkbox flipped
ToggledPair == pc = "done" /\ runs > 1 /\ prev.wb = wb /\ prev.flag # take_first_three_only

\* of the two, the run with the limit enabled / disabled
LimitOn == IF take_first_three_only THEN Outcome ELSE prev
LimitOff == IF take_first_three_only THEN prev ELSE Outcome

\* the fill steps 1-3 give column c of a row when run over the columns cols
MarkOver(row, cols, c) ==
    LET vals == [j \in 1..Len(cols) |-> to_number(row[cols[j]])]
        J    == {j \in 1..Len(cols) : cols[j] = c}
        j    == CHOOSE j \in J : TRUE
    IN  IF J = {} \/ PresentIn(vals) = {} THEN NoFill
        ELSE IF ~vals[j].present THEN YELLOW_FILL
        ELSE IF IsRowMin(vals, j) THEN GREEN_FILL
        ELSE IF IsRowMax(vals, j) THEN RED_FILL
        ELSE NoFill

\* C6: with the limit enabled and more than three Amount columns detected,
\* the Lowest/Highest/Missing marks are those of the first three Amount
\* columns alone (minimum and maximum taken over those three); the Rate and
\* Quantity lists, the blue cells and the Mismatch counts are those of the run
\* with the limit disabled.
C6_FirstThreeOnlyMismatchUntouched ==
    ToggledPair =>
        /\ \A s \in 1..Len(wb) :
               LET on  == LimitOn.sheet_cols[s]
                   off == LimitOff.sheet_cols[s]
               IN  /\ on.rate = off.rate
                   /\ on.qty = off.qty
                   /\ \A i \in 1..Len(wb[s].rows), c \in 1..Len(wb[s].rows[1]) :
                          (LimitOn.fill[s][i][c] = BLUE_FILL)
                              <=> (LimitOff.fill[s][i][c] = BLUE_FILL)
                   /\ Len(off.amount) > 3 =>
                          /\ on.amount = SubSeq(off.amount, 1, 3)
                          /\ \A i \in (off.header_row + 2)..Len(wb[s].rows) :
                                 \A c \in 1..Len(wb[s].rows[i]) :
                                     LimitOn.step3[s][i][c] =
                                         MarkOver(wb[s].rows[i],
                                                  SubSeq(off.amount, 1, 3), c)
        /\ Len(LimitOn.summary) = Len(LimitOff.summary)
        /\ \A k \in 1..Len(LimitOn.summary) :
               /\ LimitOn.summary[k].sheet = LimitOff.summary[k].sheet
               /\ LimitOn.summary[k].mismatch = LimitOff.summary[k].mismatch

\* C6 witness: both runs finished on a sheet with more than three Amount
\* columns, a fourth-column cell marked with the limit disabled and left alone
\* with it enabled, and a Mismatch cell in both.
C6_FourthColumnLeftAlone ==
    /\ ToggledPair
    /\ \E s \in 1..Len(wb) :
          LET off == LimitOff.sheet_cols[s]
          IN  /\ Len(off.amount) > 3
              /\ \E i \in 1..Len(wb[s].rows) :
                    /\ LimitOff.step3[s][i][off.amount[4]] # NoFill
                    /\ LimitOn.step3[s][i][off.amount[4]] = NoFill
                    /\ LimitOn.fill[s][i][off.amount[1]] = BLUE_FILL
                    /\ LimitOff.fill[s][i][off.amount[1]] = BLUE_FILL

\* sheet s has been through the column classification of lines 254-265
Classified(s) ==
    /\ sheet_cols[s].header_row # NoRow
    /\ s < si \/ (s = si /\ pc \in {"rows", "done"})

\* the header text of column c of sheet s, its letter case ignored
HeaderText(s, c) ==
    IgnoreCase(Strip(StrOrEmpty(wb[s].rows[sheet_cols[s].header_row + 1][c])))

NamesAnAmount(h) ==
    Contains(h, KW_AMOUNT) \/ Contains(h, KW_AMT) \/ Contains(h, KW_AED)

SeqRange(q) == {q[k] : k \in 1..Len(q)}

Without(book, k) ==
    [i \in 1..(Len(book) - 1) |-> IF i < k THEN book[i] ELSE book[i + 1]]

\* what a run shows of its sheet i
Shown(run, i) ==
    [fill |-> run.fill[i], border |-> run.border[i],
     bold_row |-> run.bold_row[i], freeze_panes |-> run.freeze_panes[i],
     step3 |-> run.step3[i]]

\* C10: a sheet in whose scan window no row holds an amount-pattern cell ends
\* with no fill, no border, no header styling and no frozen pane; and the
\* finished run on the same uploads with that sheet taken away shows every
\* other sheet, and the summary, exactly as the run that held it.
C10_HeaderlessSheetLeftAloneOthersProcessed ==
    /\ \A s \in 1..Len(wb) :
           (Detected(s) \/ pc = "done") /\ EligibleRows(wb[s].rows) = {} =>
               /\ \A i \in 1..Len(wb[s].rows), c \in 1..Len(wb[s].rows[1]) :
                      fill[s][i][c] = NoFill
               /\ ~border[s]
               /\ bold_row[s] = 0
               /\ freeze_panes[s] = 0
    /\ pc = "done" /\ runs > 1 /\ prev.flag = take_first_three_only =>
           \A k \in 1..Len(prev.wb) :
               Without(prev.wb, k) = wb /\ EligibleRows(prev.wb[k].rows) = {} =>
                   /\ summary = prev.summary
                   /\ \A i \in 1..Len(wb) :
                          Shown(Outcome, i) =
                              Shown(prev, IF i < k THEN i ELSE i + 1)

\* C10 witness: a finished run of two sheets, the first without a header and
\* the second styled and summarised, followed by the finished run without the
\* first sheet.
C10_SecondSheetStillStyled ==
    /\ pc = "done" /\ runs > 1 /\ prev.flag = take_first_three_only
    /\ Len(prev.wb) = 2
    /\ Without(prev.wb, 1) = wb
    /\ EligibleRows(prev.wb[1].rows) = {}
    /\ prev.border[2] /\ ~prev.border[1]
    /\ prev.freeze_panes[2] > 0
    /\ Len(prev.summary) = 1
    /\ \E i \in 1..Len(wb[1].rows), c \in 1..Len(wb[1].rows[1]) :
          prev.fill[2][i][c] = GREEN_FILL

\* ------------------------------------------------------------ merge

KW_Unnamed == <<"U","n","n","a","m","e","d">>

\* str(c).startswith("Unnamed")
IsUnnamed(name) == StartsWith(name, KW_Unnamed)

\* uf.name.split('.')[0]: the text before the first '.'
RECURSIVE FileStem(_)
FileStem(name) ==
    IF name = <<>> \/ Head(name) = "." THEN <<>>
    ELSE <<Head(name)>> \o FileStem(Tail(name))

\* a column of a DataFrame; origin is history: the file (1-based) and the
\* position the column was read from
Column(name, cells, origin) == [name |-> name, cells |-> cells, origin |-> origin]

\* col_vals.isna().all()
AllNaN(col) == \A i \in 1..Len(col.cells) : col.cells[i] = NoneCell

\* df.columns
ColumnNames(df) == {df[c].name : c \in 1..Len(df)}

\* lines 206-211: the first of base, base_1, base_2, ... not in df.columns
RECURSIVE FreeName(_, _, _, _)
FreeName(df, base, new_name, counter) ==
    IF new_name \in ColumnNames(df)
    THEN FreeName(df, base, base \o <<"_">> \o DigitsOf(counter), counter + 1)
    ELSE new_name

\* lines 201-212: the loop over unnamed_cols
RECURSIVE CleanUnnamed(_, _, _)
CleanUnnamed(df, unnamed_cols, stem) ==
    IF unnamed_cols = <<>> THEN df
    ELSE LET c == Head(unnamed_cols)
             k == CHOOSE k \in 1..Len(df) : df[k].name = c
         IN  IF AllNaN(df[k])
             THEN CleanUnnamed(
                      [i \in 1..(Len(df) - 1) |-> IF i < k THEN df[i] ELSE df[i + 1]],
                      Tail(unnamed_cols), stem)
             ELSE CleanUnnamed(
                      [df EXCEPT ![k].name = FreeName(df, stem, stem, 1)],
                      Tail(unnamed_cols), stem)

\* line 200
UnnamedCols(df) ==
    LET Pick(col) == IsUnnamed(col.name)
        picked == SelectSeq(df, Pick)
    IN  [i \in 1..Len(picked) |-> picked[i].name]

\* line 214: df.dropna(axis=1, how='all')
DropAllNaN(df) == LET Keep(col) == ~AllNaN(col) IN SelectSeq(df, Keep)

\* a slip: the first table trimmed like the others
Trim_Always(df, i) ==
    IF Len(df) > 2 THEN SubSeq(df, 3, Len(df)) ELSE df

\* lines 216-222: the first table whole, a later one without its first two
\* columns when it has more than two (i is the 0-based idx)
Trim(df, i) ==
    IF i = 0 THEN df
    ELSE IF Len(df) > 2 THEN SubSeq(df, 3, Len(df)) ELSE df

\* lines 223-224: add_prefix for a later table
AddPrefix(df, i, stem) ==
    IF i = 0 THEN df
    ELSE [c \in 1..Len(df) |-> [df[c] EXCEPT !.name = stem \o <<"_">> \o @]]

\* lines 198-225 for one upload
CleanTable(file, i) ==
    LET stem    == FileStem(file.name)
        cleaned == DropAllNaN(CleanUnnamed(file.df, UnnamedCols(file.df), stem))
    IN  AddPrefix(Trim(cleaned, i), i, stem)

RECURSIVE Flatten(_)
Flatten(tables) ==
    IF tables = <<>> THEN <<>> ELSE Head(tables) \o Flatten(Tail(tables))

RECURSIVE MaxRows(_)
MaxRows(df) ==
    IF df = <<>> THEN 0 ELSE MaxOf(Len(Head(df).cells), MaxRows(Tail(df)))

\* line 228: pd.concat(dfs, axis=1): the columns side by side, the shorter
\* ones filled with NaN.  Row labels are RangeIndexes, so the concat does not
\* raise and the except branch of lines 229-232 is not taken.
Concat(tables) ==
    LET all == Flatten(tables)
        n   == MaxRows(all)
    IN  [c \in 1..Len(all) |->
            [all[c] EXCEPT !.cells =
                [i \in 1..n |-> IF i <= Len(all[c].cells) THEN all[c].cells[i]
                                ELSE NoneCell]]]

\* line 234
DropUnnamed(df) == LET Keep(col) == ~IsUnnamed(col.name) IN SelectSeq(df, Keep)

\* lines 197-225: one pass of the loop over the uploads of the sheet
ReadTable ==
    /\ mpc = "files"
    /\ idx < Len(uploaded)
    /\ dfs' = Append(dfs, CleanTable(uploaded[idx + 1], idx))
    /\ idx' = idx + 1
    /\ UNCHANGED <<uploaded, merged_df, mpc>>
    /\ UNCHANGED <<cmpVars, numVars>>

\* lines 227-235, once every upload of the sheet is read
ConcatSheet ==
    /\ mpc = "files"
    /\ idx = Len(uploaded)
    /\ merged_df' = DropUnnamed(Concat(dfs))
    /\ mpc' = "done"
    /\ UNCHANGED <<uploaded, idx, dfs>>
    /\ UNCHANGED <<cmpVars, numVars>>

\* ------------------------------------------------------- merge inputs

\* the most columns an uploaded table has
MaxCols == 5

\* the most columns of one table that are empty or have no header
MaxOdd == 2

TXT_DESC == Str(KW_DESC)

ColumnHeaders == <<TXT_ITEM.s, TXT_DESC.s, TXT_QTY.s, TXT_RATE.s, TXT_AMOUNT.s,
                   TXT_x.s, TXT_foo.s, TXT_bar.s>>

\* the name read_excel gives the column at 0-based position k without a header
Placeholder(k) == KW_Unnamed \o <<":", " ">> \o DigitsOf(k)

ColumnKinds == {"named", "named_empty", "unnamed", "unnamed_empty"}

\* a table of rows rows read from upload f, its columns of the given kinds;
\* a column that is not empty holds a number in its first row
Table(kinds, rows, f) ==
    [c \in 1..Len(kinds) |->
        Column(IF kinds[c] \in {"named", "named_empty"}
               THEN ColumnHeaders[c] ELSE Placeholder(c - 1),
               [i \in 1..rows |->
                   IF i = 1 /\ kinds[c] \in {"named", "unnamed"}
                   THEN Whole(c) ELSE NoneCell],
               <<f, c>>)]

PlainKinds == {[c \in 1..n |-> "named"] : n \in 1..MaxCols}

AnyKinds ==
    UNION {{k \in [1..n -> ColumnKinds] :
               Cardinality({c \in 1..n : k[c] # "named"}) <= MaxOdd} :
           n \in 1..MaxCols}

FILE_A == <<"A",".","x","l","s","x">>
FILE_B == <<"B",".","x","l","s","x">>
FILE_B2 == <<"B",".","v","2",".","x","l","s","x">>
FILE_C == <<"C",".","x","l","s","x">>
FILE_U == <<"U","n","n","a","m","e","d",".","x","l","s","x">>

Upload(name, df) == [name |-> name, df |-> df]

\* the uploads that hold one sheet name, in upload order: two files, one of
\* them with columns of any kind, and at times a third
SheetGroups ==
    LET pairs == (AnyKinds \X PlainKinds) \cup (PlainKinds \X AnyKinds)
        two   == {<<Upload(n1, Table(p[1], 2, 1)), Upload(n2, Table(p[2], 1, 2))>> :
                     p \in pairs, n1 \in {FILE_A, FILE_U},
                     n2 \in {FILE_B, FILE_B2, FILE_U}}
        third == {Upload(FILE_C, Table(k, 3, 3)) :
                     k \in {k \in PlainKinds : Len(k) \in {2, 3}}}
    IN  two \cup {g \o <<u>> : g \in two, u \in third}

CompareIdle ==
    /\ wb = <<>>
    /\ take_first_three_only = FALSE
    /\ pc = "idle"
    /\ si = 0
    /\ header_row = NoRow
    /\ amount_cols = <<>>
    /\ rate_cols = <<>>
    /\ qty_cols = <<>>
    /\ r = 0
    /\ low_count = 0 /\ high_count = 0
    /\ missing_count = 0 /\ mismatch_count = 0
    /\ fill = <<>>
    /\ border = <<>>
    /\ bold_row = <<>>
    /\ freeze_panes = <<>>
    /\ summary = <<>>
    /\ step3 = <<>>
    /\ sheet_cols = <<>>
    /\ runs = 1
    /\ prev = NoPrev

InitMerge ==
    /\ uploaded \in SheetGroups
    /\ idx = 0
    /\ dfs = <<>>
    /\ merged_df = <<>>
    /\ mpc = "files"
    /\ CompareIdle
    /\ NumberIdle

NextMerge == ReadTable \/ ConcatSheet

SpecMerge == InitMerge /\ [][NextMerge]_vars

\* ------------------------------------------------ merge properties

Merged == mpc = "done"

NamesOf(df) == [c \in 1..Len(df) |-> df[c].name]

OriginsOf(df) == [c \in 1..Len(df) |-> df[c].origin]

\* every column of the table has a header of its own and holds a value
ExplicitNonEmpty(df) ==
    \A c \in 1..Len(df) : ~IsUnnamed(df[c].name) /\ ~AllNaN(df[c])

\* the columns upload f (1-based) is said to contribute
SaidColumns(f) ==
    LET df == uploaded[f].df
    IN  IF f = 1 THEN df
        ELSE IF Len(df) > 2 THEN SubSeq(df, 3, Len(df)) ELSE df

\* the names they are said to carry in the merged table
SaidNames(f) ==
    LET cols == SaidColumns(f)
    IN  [c \in 1..Len(cols) |->
            IF f = 1 THEN cols[c].name
            ELSE FileStem(uploaded[f].name) \o <<"_">> \o cols[c].name]

RECURSIVE SaidFrom(_)
SaidFrom(f) ==
    IF f > Len(uploaded) THEN <<>>
    ELSE [c \in 1..Len(SaidColumns(f)) |->
             [name |-> SaidNames(f)[c], origin |-> SaidColumns(f)[c].origin]]
         \o SaidFrom(f + 1)

\* C7: when every table of the group has only explicitly named, non-empty
\* columns, the merged table is the first table's columns followed by each
\* later table's columns without its first two (all of them when it has two
\* or fewer), each renamed to <source identifier>_<original name>, in order;
\* so its column count is n1 plus, for each later table, ni - 2 if ni > 2
\* else ni.
C7_LaterTablesTrimmedAndPrefixed ==
    (Merged /\ \A f \in 1..Len(uploaded) : ExplicitNonEmpty(uploaded[f].df))
    => /\ Len(merged_df) = Len(SaidFrom(1))
       /\ NamesOf(merged_df) = NamesOf(SaidFrom(1))
       /\ OriginsOf(merged_df) = OriginsOf(SaidFrom(1))

FirstKept ==
    LET Keep(col) == ~IsUnnamed(col.name) /\ ~AllNaN(col)
    IN  SelectSeq(uploaded[1].df, Keep)

\* the columns of the merged table read from headed columns of the first
MergedFromFirstHeaded ==
    LET From(col) == /\ col.origin[1] = 1
                     /\ ~IsUnnamed(uploaded[1].df[col.origin[2]].name)
    IN  SelectSeq(merged_df, From)

RecordsOf(s) == {k \in 1..Len(summary) : summary[k].sheet = wb[s].name}

\* the sheets that went through the Row Comparator: a header row was found
\* and it names an Amount column
ComparedSheets ==
    {s \in 1..Len(wb) :
        sheet_cols[s].header_row # NoRow /\ sheet_cols[s].all_amount # <<>>}

\* C11 as stated: after a run the report holds exactly one record for every
\* sheet of the output workbook.
C11_OneRecordPerSheet ==
    pc = "done" =>
        /\ Len(summary) = Len(wb)
        /\ \A s \in 1..Len(wb) : Cardinality(RecordsOf(s)) = 1

\* C11, amended: after a run the report holds exactly one record {sheet name,
\* Lowest, Highest, Missing, Mismatch counts} for every sheet in which a
\* header row with an Amount column was found, in workbook order, and none
\* for a sheet without one; no two records bear the same sheet name.
C11_OneRecordPerComparedSheet ==
    pc = "done" =>
        /\ \A s \in 1..Len(wb) :
               Cardinality(RecordsOf(s)) = (IF s \in ComparedSheets THEN 1 ELSE 0)
        /\ Len(summary) = Cardinality(ComparedSheets)
        /\ \A k, l \in 1..Len(summary) :
               /\ summary[k].sheet = summary[l].sheet => k = l
               /\ k < l =>
                      \E s, u \in 1..Len(wb) :
                          /\ s < u
                          /\ summary[k].sheet = wb[s].name
                          /\ summary[l].sheet = wb[u].name
        /\ \A k \in 1..Len(summary) :
               /\ DOMAIN summary[k] =
                      {"sheet", "lowest", "highest", "missing", "mismatch"}
               /\ {summary[k].lowest, summary[k].highest, summary[k].missing,
                   summary[k].mismatch} \subseteq Nat

\* C11 witness: a finished run on two sheets, the first without a header row
\* and without a record, the second with its one record.
C11_HeaderlessSheetHasNoRecord ==
    /\ pc = "done"
    /\ Len(wb) = 2
    /\ sheet_cols[1].header_row = NoRow
    /\ RecordsOf(1) = {}
    /\ 2 \in ComparedSheets
    /\ Len(summary) = 1
    /\ summary[1].sheet = wb[2].name

\* ------------------------------------------------------ to_number

\* the longest text drawn from NumberChars
MaxLen == 4

NumberChars == {"0", "1", "5", ".", "-", ",", " ", "A"}

RECURSIVE TextsUpTo(_)
TextsUpTo(n) ==
    IF n = 0 THEN {<<>>}
    ELSE LET shorter == TextsUpTo(n - 1)
         IN  shorter \cup {<<c>> \o s : c \in NumberChars,
                                        s \in {u \in shorter : Len(u) = n - 1}}

TXT_1234_50_AED == Str(<<"1",",","2","3","4",".","5","0"," ","A","E","D">>)
TXT_1_2_3 == Str(<<"1",".","2",".","3">>)
TXT_minus == Str(<<"-">>)
TXT_empty == Str(<<>>)

\* the arguments to_number is called with: None, numbers, texts
NumberInputs ==
    {NoneCell, Whole(42), Whole(0), Whole(0 - 7), Num(Dec(205, 1)),
     TXT_1234_50_AED, TXT_1_2_3, TXT_one_two, TXT_minus, TXT_empty,
     TXT_twenty_aed, TXT_two_nos, TXT_na}
    \cup {Str(s) : s \in TextsUpTo(MaxLen)}

\* lines 50-62: one call of to_number; whatever float() raises is caught at
\* line 61, so the call always returns
CallToNumber ==
    /\ ~tn_done
    /\ tn_result' = to_number(tn_x)
    /\ tn_done' = TRUE
    /\ UNCHANGED tn_x
    /\ UNCHANGED <<cmpVars, mergeVars>>

InitNumber ==
    /\ tn_x \in NumberInputs
    /\ tn_result = Absent
    /\ tn_done = FALSE
    /\ CompareIdle
    /\ MergeIdle

NextNumber == CallToNumber

SpecNumber == InitNumber /\ [][NextNumber]_vars

\* the characters of s that are a digit, '.' or '-', in order
NumericRemainder(s) ==
    LET Keep(c) == c \in DigitSet \cup {".", "-"} IN SelectSeq(s, Keep)

AllDigits(s) == \A i \in 1..Len(s) : s[i] \in DigitSet

\* the ways to read t as [-]digits[.digits] with at least one digit:
\* <<negative, integer digits, fraction digits>>
Readings(t) ==
    {rd \in {<<neg, SubSeq(t, a, b), SubSeq(t, c, Len(t))>> :
                neg \in BOOLEAN, a \in 1..2, b \in 0..Len(t),
                c \in 1..(Len(t) + 1)} :
        /\ AllDigits(rd[2]) /\ AllDigits(rd[3])
        /\ Len(rd[2]) + Len(rd[3]) > 0
        /\ \/ t = (IF rd[1] THEN <<"-">> ELSE <<>>) \o rd[2] \o <<".">> \o rd[3]
           \/ rd[3] = <<>> /\ t = (IF rd[1] THEN <<"-">> ELSE <<>>) \o rd[2]}

\* the number written by a sequence of digits
RECURSIVE Horner(_, _)
Horner(ds, acc) ==
    IF ds = <<>> THEN acc
    ELSE Horner(Tail(ds), acc * 10 + DigitVal(Head(ds)))

\* d is the number the reading rd writes
IsValueOf(d, rd) ==
    /\ d.e <= Len(rd[3])
    /\ d.m * (10 ^ (Len(rd[3]) - d.e))
           = (IF rd[1] THEN 0 - 1 ELSE 1) * Horner(rd[2] \o rd[3], 0)

\* C12: to_number always returns: absent for an absent input, the same value
\* for a number, and for a text the float written by what is left of it once
\* every character that is not a digit, '.' or '-' is removed, absent when
\* nothing is left or what is left is no float ('-', '1.2.3', '1-2');
\* '1,234.50 AED' gives 1234.5, '' and None give absent, 42 gives 42.0.
C12_ToNumberTotal ==
    tn_done =>
        /\ tn_result = Absent \/ (tn_result.present /\ tn_result = Float(tn_result.v))
        /\ tn_x.t = "none" => tn_result = Absent
        /\ tn_x.t = "num" => tn_result = Float(tn_x.v)
        /\ tn_x.t = "str" =>
               LET rem == NumericRemainder(tn_x.s)
               IN  IF Readings(rem) = {} THEN tn_result = Absent
                   ELSE /\ tn_result.present
                        /\ \A rd \in Readings(rem) : IsValueOf(tn_result.v, rd)
        /\ tn_x = TXT_1234_50_AED => tn_result = Float(Dec(123450, 2))
        /\ tn_x \in {TXT_empty, NoneCell, TXT_minus, TXT_1_2_3, TXT_one_two}
               => tn_result = Absent
        /\ tn_x = Whole(42) => tn_result = Float(Dec(42, 0))

\* C12 witness: the call on '1,234.50 AED' has returned 1234.5
C12_ThousandsAndCurrency ==
    /\ tn_done
    /\ tn_x = TXT_1234_50_AED
    /\ tn_result.present
    /\ tn_result.v = [m |-> 12345, e |-> 1]

\* ------------------------------------------------- rows of equal values

\* C13: in a compared row whose present Amount values are all equal every
\* present Amount cell is assigned Lowest and none Highest; a cell is assigned
\* Highest only in a row with at least two distinct present values, and no
\* cell equal to the row minimum is assigned Highest.
C13_EqualValuesAllLowest ==
    \A p \in ComparedRows :
        LET vals == AmountVals(p[1], p[2])
        IN  /\ (PresentIn(vals) # {} /\ ~HasTwoValues(vals)) =>
                   /\ Marked(p[1], p[2], GREEN_FILL) = PresentIn(vals)
                   /\ Marked(p[1], p[2], RED_FILL) = {}
            /\ \A j \in Marked(p[1], p[2], RED_FILL) :
                   /\ HasTwoValues(vals)
                   /\ vals[j].present
                   /\ ~IsRowMin(vals, j)

\* C13 witness: a compared row with several present values, all equal and all
\* assigned Lowest, and a compared row of two distinct values with a cell
\* assigned Highest.
C13_EqualRowAndHighestRow ==
    /\ \E p \in ComparedRows :
          LET vals == AmountVals(p[1], p[2])
          IN  /\ Cardinality(PresentIn(vals)) >= 2
              /\ ~HasTwoValues(vals)
              /\ Marked(p[1], p[2], GREEN_FILL) = PresentIn(vals)
    /\ \E p \in ComparedRows :
          LET vals == AmountVals(p[1], p[2])
          IN  /\ Marked(p[1], p[2], RED_FILL) # {}
              /\ HasTwoValues(vals)

\* ------------------------------------------- the NoAmountColumns skip

\* sheet s is behind the run: the loop of line 246 has left it
Left(s) == s < si \/ pc = "done"

\* sheet s was compared, styled and given its summary row
Processed(s) ==
    /\ border[s]
    /\ bold_row[s] = sheet_cols[s].header_row + 1
    /\ freeze_panes[s] = sheet_cols[s].header_row + 2
    /\ Cardinality(RecordsOf(s)) = 1
    /\ \A i \in (sheet_cols[s].header_row + 2)..Len(wb[s].rows) :
           step3[s][i] = RowFills(wb[s].rows[i], sheet_cols[s].amount)

\* sheet s was left as the merge wrote it
Untouched(s) ==
    /\ ~border[s]
    /\ bold_row[s] = 0
    /\ freeze_panes[s] = 0
    /\ RecordsOf(s) = {}
    /\ \A i \in 1..Len(wb[s].rows) :
           \A c \in 1..Len(wb[s].rows[i]) : fill[s][i][c] = NoFill

\* the header row of sheet s holds a character whose upper case is longer
\* than the character itself
HeaderHasSpecialCasing(s) ==
    \E c \in 1..Len(wb[s].rows[sheet_cols[s].header_row + 1]) :
        LET txt == StrOrEmpty(wb[s].rows[sheet_cols[s].header_row + 1][c])
        IN  Len(UpperStr(txt)) # Len(txt)

\* C14 as stated: whenever a header row is found for a sheet, the Amount list
\* of that row is not empty, and the sheet is compared, styled and given a
\* summary row.
C14_DetectedHeaderHasAmountColumn ==
    \A s \in 1..Len(wb) :
        Classified(s) =>
            /\ sheet_cols[s].all_amount # <<>>
            /\ Left(s) => Processed(s)

\* C14, amended: whenever a header row is found for a sheet and upper-casing
\* changes the length of none of its texts, the Amount list of that row is
\* not empty; a sheet with a non-empty Amount list is compared, styled and
\* given a summary row; a sheet whose header row was found but names no Amount
\* column (the skip of line 259) is left without fill, style or summary row.
C14_SkipOnlyOnSpecialCasing ==
    \A s \in 1..Len(wb) :
        Classified(s) =>
            /\ ~HeaderHasSpecialCasing(s) => sheet_cols[s].all_amount # <<>>
            /\ (sheet_cols[s].all_amount # <<>> /\ Left(s)) => Processed(s)
            /\ (sheet_cols[s].all_amount = <<>> /\ Left(s)) => Untouched(s)

\* C14 witness: a finished run in which one sheet with a found header row
\* (amoun + U+1E97) had no Amount column and was left alone, and another
\* sheet was processed.
C14_SkipTakenBesideProcessedSheet ==
    /\ pc = "done"
    /\ \E s \in 1..Len(wb) :
          /\ sheet_cols[s].header_row # NoRow
          /\ sheet_cols[s].all_amount = <<>>
          /\ HeaderHasSpecialCasing(s)
          /\ Untouched(s)
    /\ \E s \in 1..Len(wb) :
          /\ sheet_cols[s].all_amount # <<>>
          /\ ~HeaderHasSpecialCasing(s)
          /\ Processed(s)

=============================================================================
